---- MODULE Spec2Model ----
(***************************************************************************)
(* MarketPredictor (src/ml_model.py): one JSON record store shared by all  *)
(* users, two regression models that are refitted on every mutation, and  *)
(* read-only queries.                                                      *)
(*                                                                         *)
(* Numbers are Python floats in the source.  A value is modelled as a      *)
(* record [k, v]: k = "num" carries the integer v (hundredths of a unit),  *)
(* k = "nan" and k = "inf" are the non-finite floats float() can parse.    *)
(* The numerical library (StandardScaler + LinearRegression) is not        *)
(* modelled arithmetically: a successful fit leaves the model with         *)
(* coefficients drawn from Coefs, and a fit raises exactly when its input  *)
(* holds a non-finite value (sklearn's check_array / check_X_y).           *)
(* price_model and profit_model each stand for the scaler and the          *)
(* regression together.  Every reader tests the trained flag before it     *)
(* touches a model (lines 151, 194, 286, 309), so the coefficients of a    *)
(* model whose flag is False are not observable and are not kept.          *)
(***************************************************************************)
EXTENDS Integers, Sequences, FiniteSets, TLC

\* ------------------------------------------------------------------ bounds
MaxRecords == 3
MaxPeriods == 2
MaxLimit == 2
\* a periods argument large enough to leave the range of datetime
HugePeriods == 100000
\* rows of the longest store of SpecWindow: more than the forecast averages
MaxWindow == 6

\* --------------------------------------------------------- program constants
MinTrain == 3
RecentWindow == 5
DaysPerPeriod == 30
\* datetime.max as a day ordinal (9999-12-31): datetime + timedelta beyond it
\* raises OverflowError
MaxOrdinal == 3652059

\* ------------------------------------------------------------------ values
Num(n) == [k |-> "num", v |-> n]
NaN == [k |-> "nan", v |-> 0]
Inf == [k |-> "inf", v |-> 0]
IsFinite(x) == x.k = "num"

Users == {1, 2}
\* user_id = None: the query is over all users
NoUser == 0
\* values of datetime.now(), as day ordinals (the wall clock is not monotonic)
Timestamps == {740000, 740001}

\* argument tuples of add_user_data: market_price, harvest_amount, total_cost,
\* total_revenue, net_profit
InGood == [market_price |-> Num(500), harvest_amount |-> Num(10),
           total_cost |-> Num(100), total_revenue |-> Num(50),
           net_profit |-> Num(0 - 50)]
InNanProfit == [market_price |-> Num(600), harvest_amount |-> Num(20),
                total_cost |-> Num(200), total_revenue |-> Num(120),
                net_profit |-> NaN]
InInfHarvest == [market_price |-> Num(700), harvest_amount |-> Inf,
                 total_cost |-> Num(300), total_revenue |-> Num(210),
                 net_profit |-> Num(90)]
InCheap == [market_price |-> Num(400), harvest_amount |-> Num(30),
            total_cost |-> Num(50), total_revenue |-> Num(120),
            net_profit |-> Num(70)]
\* the calls made: argument tuple and the wall-clock time of the call
AddCases == {<<InGood, 740001>>, <<InNanProfit, 740000>>, <<InInfHarvest, 740001>>}

Periods == (0 .. MaxPeriods) \cup {HugePeriods}
Limits == 0 .. MaxLimit

\* fitted pipelines (scaler + regression): raw prediction = b + w * sum(features)
Unfit == [fitted |-> FALSE, b |-> 0, w |-> 0]
Coefs == {[fitted |-> TRUE, b |-> 100, w |-> 1],
          [fitted |-> TRUE, b |-> 0, w |-> 0 - 1]}

NotTrainedMsg == "Model not trained. Need at least 3 data points."
NoDataMsg == "No data available for prediction."
PriceErrMsg == "Error generating price predictions"
ProfitErrMsg == "Error generating profit predictions"

VARIABLES
  file,                  \* content of market_data.json (a sequence of records)
  corrupt,               \* the file exists but does not parse as JSON
  price_model_trained,
  profit_model_trained,
  price_model,           \* price_scaler + price_model
  profit_model,          \* profit_scaler + profit_model
  ret,                   \* the last call: operation, arguments, outcome
  pc,                    \* concurrent requests: where each one stands
  req,                   \* concurrent requests: the mutation each one runs
  ldata,                 \* concurrent requests: the local list `data` of the mutation
  tdata                  \* concurrent requests: the local list `data` of _train_models

vars == <<file, corrupt, price_model_trained, profit_model_trained,
          price_model, profit_model, ret, pc, req, ldata, tdata>>

\* ------------------------------------------------------------ sequences
RECURSIVE SelectSeqBy(_, _, _)
\* [item for item in data if (item['user_id'] == u) = keep]
SelectSeqBy(data, u, keep) ==
  IF data = <<>> THEN <<>>
  ELSE IF (Head(data).user_id = u) = keep
       THEN <<Head(data)>> \o SelectSeqBy(Tail(data), u, keep)
       ELSE SelectSeqBy(Tail(data), u, keep)

Min2(a, b) == IF a < b THEN a ELSE b
Max2(a, b) == IF a > b THEN a ELSE b

\* data[-k:] for 1 <= k <= len(data)
LastK(data, k) == SubSeq(data, Len(data) - k + 1, Len(data))
\* data[:k] for k >= 0
FirstK(data, k) == SubSeq(data, 1, Min2(k, Len(data)))

\* ------------------------------------------------------------- the store
\* json.dump of one Python value: a number, NaN, Infinity, or a string
JsonNumber(x) ==
  IF x.k = "num" THEN <<"number", x.v>>
  ELSE IF x.k = "nan" THEN <<"NaN">> ELSE <<"Infinity">>

\* json.load of one encoded number
PyNumber(j) ==
  IF j[1] = "number" THEN Num(j[2])
  ELSE IF j[1] = "NaN" THEN NaN ELSE Inf

JsonRow(r) ==
  [user_id |-> <<"number", r.user_id>>,
   market_price |-> JsonNumber(r.market_price),
   harvest_amount |-> JsonNumber(r.harvest_amount),
   total_cost |-> JsonNumber(r.total_cost),
   total_revenue |-> JsonNumber(r.total_revenue),
   net_profit |-> JsonNumber(r.net_profit),
   timestamp |-> <<"string", r.timestamp>>]

PyRow(j) ==
  [user_id |-> j.user_id[2],
   market_price |-> PyNumber(j.market_price),
   harvest_amount |-> PyNumber(j.harvest_amount),
   total_cost |-> PyNumber(j.total_cost),
   total_revenue |-> PyNumber(j.total_revenue),
   net_profit |-> PyNumber(j.net_profit),
   timestamp |-> j.timestamp[2]]

\* json.dump(data, f) and json.load(f) on a list of rows
JsonDump(data) == [i \in 1 .. Len(data) |-> JsonRow(data[i])]
JsonLoad(text) == [i \in 1 .. Len(text) |-> PyRow(text[i])]

\* load_data: the parsed file, or [] when it is missing or unreadable
\* mutant: the content is handed on although the read failed
LoadData_Unguarded == JsonLoad(file)

LoadData == IF corrupt THEN <<>> ELSE JsonLoad(file)

\* mutant: the last row of data is appended to what the file holds now
SaveData_Appends(data) ==
  /\ file' = IF data = <<>> THEN <<>>
             ELSE JsonDump(Append(LoadData, data[Len(data)]))
  /\ corrupt' = FALSE

\* save_data: the file is rewritten with the dumped list
SaveData(data) == file' = JsonDump(data) /\ corrupt' = FALSE

\* mutant: total_cost and total_revenue swapped in the new row
NewRow_Swapped(u, in, ts) ==
  [user_id |-> u, market_price |-> in.market_price,
   harvest_amount |-> in.harvest_amount, total_cost |-> in.total_revenue,
   total_revenue |-> in.total_cost, net_profit |-> in.net_profit,
   timestamp |-> ts]

NewRow(u, in, ts) ==
  [user_id |-> u, market_price |-> in.market_price,
   harvest_amount |-> in.harvest_amount, total_cost |-> in.total_cost,
   total_revenue |-> in.total_revenue, net_profit |-> in.net_profit,
   timestamp |-> ts]

\* ---------------------------------------------------------- _train_models
AllFinite(data, f) == \A i \in 1 .. Len(data) : IsFinite(data[i][f])

\* the price stage raises: scaler, fit or evaluation meets a non-finite value
PriceStageRaises(data) ==
  ~(AllFinite(data, "harvest_amount") /\ AllFinite(data, "total_cost")
      /\ AllFinite(data, "market_price"))

\* the profit stage raises (its features are finite once the price stage passed)
ProfitStageRaises(data) ==
  ~(AllFinite(data, "market_price") /\ AllFinite(data, "harvest_amount")
      /\ AllFinite(data, "total_cost") /\ AllFinite(data, "net_profit"))

\* train_test_split(test_size = 0.2, random_state = 42) on n rows: the test
\* partition has ceil(0.2 * n) rows, the first ones of the permutation that
\* RandomState(42) draws ([0 1 2], [1 3 0 2], [1 4 2 0 3] for n = 3, 4, 5);
\* positions count from 1. The training partition is the rest.
TestSize(n) == (n + 4) \div 5
HoldOut(n) == CASE n = 3 -> {1} [] n = 4 -> {2} [] n = 5 -> {2}

\* fit_transform of the scaler raises: a non-finite feature in any row
ScalerRaises(data, feats) == \E j \in 1 .. Len(feats) : ~AllFinite(data, feats[j])

\* model.fit(X_train, y_train) raises: a non-finite target in a training row
FitRaises(data, target) ==
  \E i \in (1 .. Len(data)) \ HoldOut(Len(data)) : ~IsFinite(data[i][target])

\* mean_squared_error(y_test, y_pred) raises: a non-finite target in a test row
EvaluationRaises(data, target) ==
  \E i \in HoldOut(Len(data)) : ~IsFinite(data[i][target])

\* model state: the two flags and the two fitted pipelines
ModelState == [pt |-> price_model_trained, ft |-> profit_model_trained,
               pm |-> price_model, fm |-> profit_model]

\* mutant: the threshold off by one
TooFewRecords_OffByOne(data) == Len(data) < MinTrain - 1

TooFewRecords(data) == Len(data) < MinTrain

\* the model state __init__ builds
FreshState == [pt |-> FALSE, ft |-> FALSE, pm |-> Unfit, fm |-> Unfit]

\* mutant: a retrain that cannot fit keeps the flags it found
MarkUntrained_KeepsFlags(st) == st

MarkUntrained(st) == [pt |-> FALSE, ft |-> FALSE, pm |-> Unfit, fm |-> Unfit]

PriceFitted(st, cp) == [st EXCEPT !.pm = cp, !.pt = TRUE]

ProfitFitted(st, cf) == [st EXCEPT !.fm = cf, !.ft = TRUE]

\* mutant: the handler resets only the flag of the model that was being fitted
FitFailed_ProfitOnly(st) == [st EXCEPT !.ft = FALSE]

\* the except handler of _train_models
FitFailed(st) == MarkUntrained(st)

\* _train_models on the store it loads: the model states it can end in
TrainModels(st, data) ==
  IF TooFewRecords(data) THEN {MarkUntrained(st)}
  ELSE IF PriceStageRaises(data) THEN {FitFailed(st)}
  ELSE IF ProfitStageRaises(data)
       THEN {FitFailed(PriceFitted(st, cp)) : cp \in Coefs}
  ELSE {ProfitFitted(PriceFitted(st, cp), cf) : cp \in Coefs, cf \in Coefs}

SetModelState(st) ==
  /\ price_model_trained' = st.pt
  /\ profit_model_trained' = st.ft
  /\ price_model' = st.pm
  /\ profit_model' = st.fm

\* the call record left in ret
\* op, user and n (periods, limit, or the time of an add) name the call, arg is the argument tuple of
\* add_user_data, val and err are what it returned; was holds the two trained
\* flags and the store length as the call found them
Call(op, u, n, arg, val, err) ==
  [op |-> op, user |-> u, n |-> n, arg |-> arg, raised |-> FALSE,
   val |-> val, err |-> err,
   was |-> <<price_model_trained, profit_model_trained, Len(LoadData)>>]

NoArg == <<>>
NoCall == [op |-> "init", user |-> NoUser, n |-> 0, arg |-> NoArg, raised |-> FALSE,
           val |-> <<>>, err |-> "", was |-> <<FALSE, FALSE, 0>>]

\* ------------------------------------------------------------- mutations
\* add_user_data(u, in...) at wall-clock time ts
\* mutant: the new row is put in front
AddedData_Prepends(u, in, ts) == <<NewRow(u, in, ts)>> \o LoadData

AddedData(u, in, ts) == Append(LoadData, NewRow(u, in, ts))

\* mutant: the call refuses to write when the file it read did not load
AddUserDataCall_KeepsUnreadable(u, in, ts) ==
  IF corrupt
  THEN /\ UNCHANGED <<file, corrupt, price_model_trained, profit_model_trained,
                      price_model, profit_model>>
       /\ ret' = Call("add_user_data", u, ts, in, <<>>, "unreadable store")
  ELSE LET data == AddedData(u, in, ts) IN
    /\ SaveData(data)
    /\ \E st \in TrainModels(ModelState, data) : SetModelState(st)
    /\ ret' = Call("add_user_data", u, ts, in, data, "")

AddUserDataCall(u, in, ts) ==
  LET data == AddedData(u, in, ts) IN
    /\ SaveData(data)
    /\ \E st \in TrainModels(ModelState, data) : SetModelState(st)
    /\ ret' = Call("add_user_data", u, ts, in, data, "")

\* the call, on a store that has room for one more row
AddUserData(u, in, ts) ==
  /\ Len(LoadData) < MaxRecords
  /\ AddUserDataCall(u, in, ts)

\* mutant: the filter keeps the user's rows and drops the others
ClearedData_Inverted(u) == SelectSeqBy(LoadData, u, TRUE)

\* clear_user_data(u)
ClearedData(u) == SelectSeqBy(LoadData, u, FALSE)

ClearUserData(u) ==
  LET data == ClearedData(u) IN
    /\ SaveData(data)
    /\ \E st \in TrainModels(ModelState, data) : SetModelState(st)
    /\ ret' = Call("clear_user_data", u, 0, NoArg, <<>>, "")

\* --------------------------------------------------------------- numbers
\* round(num / den) to the nearest integer, ties to even (Python's round)
RoundDiv(num, den) ==
  LET q == num \div den
      r == num % den
  IN IF 2 * r < den THEN q
     ELSE IF 2 * r > den THEN q + 1
     ELSE IF q % 2 = 0 THEN q ELSE q + 1

RECURSIVE SumField(_, _)
SumField(data, f) ==
  IF data = <<>> THEN 0 ELSE Head(data)[f].v + SumField(Tail(data), f)

\* ------------------------------------------------------------ predictions
\* mutant: the slice is taken from the front of the list
RecentData_Oldest(data) == FirstK(data, Min2(RecentWindow, Len(data)))

\* data[-min(5, len(data)):]
RecentData(data) == LastK(data, Min2(RecentWindow, Len(data)))

NoneResult == [isNone |-> TRUE, items |-> <<>>]
ListResult(items) == [isNone |-> FALSE, items |-> items]

PriceFeatures == <<"harvest_amount", "total_cost">>
ProfitFeatures == <<"market_price", "harvest_amount", "total_cost">>

\* scaler.transform / model.predict raise: non-finite feature, or never fitted
PredictRaises(m, recent, feats) ==
  \/ ~m.fitted
  \/ \E j \in 1 .. Len(feats) : ~AllFinite(recent, feats[j])

RECURSIVE SumFeatures(_, _)
SumFeatures(recent, feats) ==
  IF feats = <<>> THEN 0
  ELSE SumField(recent, Head(feats)) + SumFeatures(recent, Tail(feats))

\* numerator of the raw prediction over the denominator len(recent):
\* b + w * (sum of the feature means)
RawNumerator(m, recent, feats) ==
  m.b * Len(recent) + m.w * SumFeatures(recent, feats)

\* mutant: the period number is left out of the offset
FutureDate_NoPeriod(now, i) == now + DaysPerPeriod

\* date of period i: current_date + timedelta(days = i * 30)
FutureDate(now, i) == now + i * DaysPerPeriod

\* the addition raises OverflowError for some period of 1 .. periods
DateRaises(now, periods) == periods >= 1 /\ FutureDate(now, periods) > MaxOrdinal

\* mutant: the raw prediction is passed on as it is
ClampPrice_None(num) == num

\* max(0, predicted_price)
ClampPrice(num) == Max2(0, num)

PriceEntry(i, recent, now) ==
  [date |-> FutureDate(now, i),
   value |-> RoundDiv(ClampPrice(RawNumerator(price_model, recent, PriceFeatures)),
                      Len(recent))]

ProfitEntry(i, recent, now) ==
  [date |-> FutureDate(now, i),
   value |-> RoundDiv(RawNumerator(profit_model, recent, ProfitFeatures),
                      Len(recent))]

\* mutant: the call also tests the size of the store it would average
PredictFuturePrices_ChecksStore(periods, now) ==
  IF ~price_model_trained \/ Len(LoadData) < MinTrain
  THEN <<NoneResult, NotTrainedMsg>>
  ELSE LET recent == RecentData(LoadData) IN
    IF \/ periods >= 1 /\ PredictRaises(price_model, recent, PriceFeatures)
       \/ DateRaises(now, periods)
    THEN <<NoneResult, PriceErrMsg>>
    ELSE <<ListResult([i \in 1 .. periods |-> PriceEntry(i, recent, now)]), "">>

\* predict_future_prices(periods) called at time now: (result, error)
PredictFuturePrices(periods, now) ==
  IF ~price_model_trained THEN <<NoneResult, NotTrainedMsg>>
  ELSE LET data == LoadData IN
    IF Len(data) = 0 THEN <<NoneResult, NoDataMsg>>
    ELSE LET recent == RecentData(data) IN
      IF \/ periods >= 1 /\ PredictRaises(price_model, recent, PriceFeatures)
         \/ DateRaises(now, periods)
      THEN <<NoneResult, PriceErrMsg>>
      ELSE <<ListResult([i \in 1 .. periods |-> PriceEntry(i, recent, now)]), "">>

\* predict_future_profits(periods) called at time now: (result, error)
PredictFutureProfits(periods, now) ==
  IF ~profit_model_trained THEN <<NoneResult, NotTrainedMsg>>
  ELSE LET data == LoadData IN
    IF Len(data) = 0 THEN <<NoneResult, NoDataMsg>>
    ELSE LET recent == RecentData(data) IN
      IF \/ periods >= 1 /\ PredictRaises(profit_model, recent, ProfitFeatures)
         \/ DateRaises(now, periods)
      THEN <<NoneResult, ProfitErrMsg>>
      ELSE <<ListResult([i \in 1 .. periods |-> ProfitEntry(i, recent, now)]), "">>

\* ---------------------------------------------------------------- history
\* mutant: the user_id argument is ignored
FilterUser_Everyone(data, u) == data

\* data filtered by user_id when one is given
FilterUser(data, u) == IF u # NoUser THEN SelectSeqBy(data, u, TRUE) ELSE data

RECURSIVE InsertDesc(_, _)
\* r placed after every element whose timestamp is >= its own (stable)
InsertDesc(sorted, r) ==
  IF sorted = <<>> THEN <<r>>
  ELSE IF Head(sorted).timestamp >= r.timestamp
       THEN <<Head(sorted)>> \o InsertDesc(Tail(sorted), r)
       ELSE <<r>> \o sorted

\* mutant: the rows are left in stored order
SortDesc_Unsorted(data) == data

RECURSIVE SortDesc(_)
\* sorted(data, key = timestamp, reverse = True): stable
SortDesc(data) ==
  IF data = <<>> THEN <<>>
  ELSE InsertDesc(SortDesc(SubSeq(data, 1, Len(data) - 1)), data[Len(data)])

\* get_historical_data(u, limit) on the loaded store
HistoricalData(store, u, limit) ==
  LET data == FilterUser(store, u) IN
    IF Len(data) = 0 THEN <<>>
    ELSE LET recent == FirstK(SortDesc(data), limit) IN
      [i \in 1 .. Len(recent) |->
         [month |-> i, market_price |-> recent[i].market_price,
          net_profit |-> recent[i].net_profit]]

\* get_historical_data(u, limit)
GetHistoricalData(u, limit) == HistoricalData(LoadData, u, limit)

\* ------------------------------------------------------------------ stats
\* round(sum(xs) / len(xs), 2) on floats: NaN absorbs, then Infinity
AvgValue(data, f) ==
  IF \E i \in 1 .. Len(data) : data[i][f].k = "nan" THEN NaN
  ELSE IF \E i \in 1 .. Len(data) : data[i][f].k = "inf" THEN Inf
  ELSE Num(RoundDiv(SumField(data, f), Len(data)))

\* mutant: one user counted per row
UserIds_PerRow(data) == 1 .. Len(data)

\* set(item['user_id'] for item in data)
UserIds(data) == {data[i].user_id : i \in 1 .. Len(data)}
StampsOf(data) == {data[i].timestamp : i \in 1 .. Len(data)}
MinOf(S) == CHOOSE x \in S : \A y \in S : x <= y
MaxOf(S) == CHOOSE x \in S : \A y \in S : x >= y

\* one entry of model_performance: absent, the metrics, or the caught error
Performance(trained, m, data, feats, target) ==
  IF ~(trained /\ Len(data) >= MinTrain) THEN "absent"
  ELSE IF PredictRaises(m, data, feats) \/ ~AllFinite(data, target) THEN "error"
  ELSE "metrics"

\* get_model_stats(u) on the loaded store
ModelStats(store, u) ==
  LET data == FilterUser(store, u) IN
    IF Len(data) = 0
    THEN [total_data_points |-> 0, model_trained |-> FALSE,
          message |-> "No data available",
          avg_market_price |-> Num(0), avg_profit |-> Num(0),
          total_users |-> IF u # NoUser THEN 1 ELSE 0,
          training_status |-> "Not trained",
          model_performance |-> [price_model |-> "absent", profit_model |-> "absent"],
          date_range |-> <<>>]
    ELSE [total_data_points |-> Len(data),
          model_trained |-> price_model_trained /\ profit_model_trained,
          message |-> "",
          avg_market_price |-> AvgValue(data, "market_price"),
          avg_profit |-> AvgValue(data, "net_profit"),
          total_users |-> Cardinality(UserIds(data)),
          training_status |-> IF price_model_trained /\ profit_model_trained
                              THEN "Trained" ELSE "Partially trained",
          model_performance |->
            [price_model |-> Performance(price_model_trained, price_model, data,
                                         PriceFeatures, "market_price"),
             profit_model |-> Performance(profit_model_trained, profit_model, data,
                                          ProfitFeatures, "net_profit")],
          date_range |-> <<MinOf(StampsOf(data)), MaxOf(StampsOf(data))>>]

\* get_model_stats(u)
GetModelStats(u) == ModelStats(LoadData, u)

\* ---------------------------------------------------------------- queries
Unchanged == UNCHANGED <<file, corrupt, price_model_trained, profit_model_trained,
                         price_model, profit_model>>

\* a call that runs alone, outside the concurrent requests
Alone == UNCHANGED <<pc, req, ldata, tdata>>

\* mutant: an exception of the forecast loop reaches the caller
QueryPrices_Propagates(p, now) ==
  LET r == PredictFuturePrices(p, now) IN
    /\ ret' = [Call("predict_future_prices", NoUser, p, NoArg, r[1], r[2])
                 EXCEPT !.raised = (r[2] = PriceErrMsg)]
    /\ Unchanged

QueryPrices(p, now) ==
  LET r == PredictFuturePrices(p, now) IN
    /\ ret' = Call("predict_future_prices", NoUser, p, NoArg, r[1], r[2])
    /\ Unchanged

QueryProfits(p, now) ==
  LET r == PredictFutureProfits(p, now) IN
    /\ ret' = Call("predict_future_profits", NoUser, p, NoArg, r[1], r[2])
    /\ Unchanged

QueryHistory(u, limit) ==
  /\ ret' = Call("get_historical_data", u, limit, NoArg, GetHistoricalData(u, limit), "")
  /\ Unchanged

\* mutant: the query refits the models before it answers
QueryStats_Retrains(u) ==
  /\ ret' = Call("get_model_stats", u, 0, NoArg, GetModelStats(u), "")
  /\ \E st \in TrainModels(ModelState, LoadData) : SetModelState(st)
  /\ UNCHANGED <<file, corrupt>>

QueryStats(u) ==
  /\ ret' = Call("get_model_stats", u, 0, NoArg, GetModelStats(u), "")
  /\ Unchanged

\* a periods argument that is not an integer: range(1, periods + 1) raises
\* TypeError inside the try block, after the trained and the empty-store tests
InvalidPeriods == <<"not an integer">>

PredictInvalidPeriods(trained, errmsg) ==
  IF ~trained THEN <<NoneResult, NotTrainedMsg>>
  ELSE IF Len(LoadData) = 0 THEN <<NoneResult, NoDataMsg>>
  ELSE <<NoneResult, errmsg>>

QueryPricesInvalid ==
  LET r == PredictInvalidPeriods(price_model_trained, PriceErrMsg) IN
    /\ ret' = Call("predict_future_prices", NoUser, 0, InvalidPeriods, r[1], r[2])
    /\ Unchanged

QueryProfitsInvalid ==
  LET r == PredictInvalidPeriods(profit_model_trained, ProfitErrMsg) IN
    /\ ret' = Call("predict_future_profits", NoUser, 0, InvalidPeriods, r[1], r[2])
    /\ Unchanged

\* ---------------------------------------------------------- specification
\* MarketPredictor.__init__ with no store file yet
NoRequests ==
  /\ pc = [p \in Users |-> "idle"]
  /\ req = [p \in Users |-> [kind |-> "none", arg |-> NoArg, ts |-> 0]]
  /\ ldata = [p \in Users |-> <<>>]
  /\ tdata = [p \in Users |-> <<>>]

Init ==
  /\ file = <<>>
  /\ corrupt = FALSE
  /\ price_model_trained = FALSE
  /\ profit_model_trained = FALSE
  /\ price_model = Unfit
  /\ profit_model = Unfit
  /\ ret = NoCall
  /\ NoRequests

Add == \E u \in Users, c \in AddCases : AddUserData(u, c[1], c[2]) /\ Alone
Clear == \E u \in Users : ClearUserData(u) /\ Alone
Prices == \E p \in Periods, now \in Timestamps : QueryPrices(p, now) /\ Alone
Profits == \E p \in Periods, now \in Timestamps : QueryProfits(p, now) /\ Alone
History == \E u \in Users \cup {NoUser}, limit \in Limits : QueryHistory(u, limit) /\ Alone
Stats == \E u \in Users \cup {NoUser} : QueryStats(u) /\ Alone

Next == Add \/ Clear \/ Prices \/ Profits \/ History \/ Stats

Spec == Init /\ [][Next]_vars

\* ------------------------------------------------- failing writes (SpecIO)
\* save_data raises: open() fails and the file is untouched, or the dump fails
\* after open() truncated the file and leaves text that does not parse
SaveDataFails(partial) ==
  IF partial THEN file' = <<>> /\ corrupt' = TRUE
  ELSE UNCHANGED <<file, corrupt>>

Raise(call) == [call EXCEPT !.raised = TRUE]

\* add_user_data when save_data raises: nothing catches it, _train_models is
\* not reached
AddUserDataSaveFails(u, in, ts, partial) ==
  /\ Len(LoadData) < MaxRecords
  /\ SaveDataFails(partial)
  /\ UNCHANGED <<price_model_trained, profit_model_trained, price_model, profit_model>>
  /\ ret' = Raise(Call("add_user_data", u, ts, in, <<>>, "OSError"))

\* clear_user_data when save_data raises
ClearUserDataSaveFails(u, partial) ==
  /\ SaveDataFails(partial)
  /\ UNCHANGED <<price_model_trained, profit_model_trained, price_model, profit_model>>
  /\ ret' = Raise(Call("clear_user_data", u, 0, NoArg, <<>>, "OSError"))

AddFails == \E u \in Users, c \in AddCases, partial \in BOOLEAN :
              AddUserDataSaveFails(u, c[1], c[2], partial) /\ Alone
ClearFails == \E u \in Users, partial \in BOOLEAN :
                ClearUserDataSaveFails(u, partial) /\ Alone

NextIO == Add \/ Clear \/ AddFails \/ ClearFails \/ Prices \/ Profits \/ History \/ Stats

SpecIO == Init /\ [][NextIO]_vars

\* ------------------------------------- two concurrent mutations (SpecConc)
\* Two requests, one per user, each running one mutation on the module-level
\* predictor; a step is a stretch of code between two accesses to the file or
\* to the trained flags.

\* stores the sequential program reaches before the two requests arrive
SeedStores ==
  {<<>>,
   <<NewRow(1, InGood, 740001)>>,
   <<NewRow(1, InGood, 740001), NewRow(1, InGood, 740001), NewRow(2, InGood, 740001)>>}

InitConc ==
  /\ \E seed \in SeedStores :
       /\ file = JsonDump(seed)
       /\ \E st \in TrainModels(FreshState, seed) :
            /\ price_model_trained = st.pt
            /\ profit_model_trained = st.ft
            /\ price_model = st.pm
            /\ profit_model = st.fm
  /\ corrupt = FALSE
  /\ ret = NoCall
  /\ NoRequests

\* lines 39-51 / 61-63: load_data, then the local append or filter
CLoad(p, kind, in, ts) ==
  /\ pc[p] = "idle"
  /\ req' = [req EXCEPT ![p] = [kind |-> kind, arg |-> in, ts |-> ts]]
  /\ ldata' = [ldata EXCEPT ![p] = IF kind = "add" THEN AddedData(p, in, ts)
                                    ELSE ClearedData(p)]
  /\ pc' = [pc EXCEPT ![p] = "save"]
  /\ UNCHANGED <<file, corrupt, price_model_trained, profit_model_trained,
                 price_model, profit_model, ret, tdata>>

\* lines 52 / 64: save_data(data)
CSave(p) ==
  /\ pc[p] = "save"
  /\ SaveData(ldata[p])
  /\ pc' = [pc EXCEPT ![p] = "train"]
  /\ UNCHANGED <<price_model_trained, profit_model_trained,
                 price_model, profit_model, ret, req, ldata, tdata>>

\* line 71: _train_models loads the store
CTrainLoad(p) ==
  /\ pc[p] = "train"
  /\ tdata' = [tdata EXCEPT ![p] = LoadData]
  /\ pc' = [pc EXCEPT ![p] = "price"]
  /\ UNCHANGED <<file, corrupt, price_model_trained, profit_model_trained,
                 price_model, profit_model, ret, req, ldata>>

\* lines 73-121: the length test and the price stage
CPrice(p) ==
  /\ pc[p] = "price"
  /\ IF TooFewRecords(tdata[p])
     THEN SetModelState(MarkUntrained(ModelState)) /\ pc' = [pc EXCEPT ![p] = "done"]
     ELSE IF PriceStageRaises(tdata[p])
     THEN SetModelState(FitFailed(ModelState)) /\ pc' = [pc EXCEPT ![p] = "done"]
     ELSE /\ \E cp \in Coefs : SetModelState(PriceFitted(ModelState, cp))
          /\ pc' = [pc EXCEPT ![p] = "profit"]
  /\ UNCHANGED <<file, corrupt, ret, req, ldata, tdata>>

\* lines 124-147: the profit stage
CProfit(p) ==
  /\ pc[p] = "profit"
  /\ IF ProfitStageRaises(tdata[p])
     THEN SetModelState(FitFailed(ModelState))
     ELSE \E cf \in Coefs : SetModelState(ProfitFitted(ModelState, cf))
  /\ pc' = [pc EXCEPT ![p] = "done"]
  /\ UNCHANGED <<file, corrupt, ret, req, ldata, tdata>>

StartAdd == \E p \in Users, c \in AddCases : CLoad(p, "add", c[1], c[2])
StartClear == \E p \in Users : CLoad(p, "clear", NoArg, 0)
Save == \E p \in Users : CSave(p)
TrainLoad == \E p \in Users : CTrainLoad(p)
PriceStage == \E p \in Users : CPrice(p)
ProfitStage == \E p \in Users : CProfit(p)

NextConc == StartAdd \/ StartClear \/ Save \/ TrainLoad \/ PriceStage \/ ProfitStage

SpecConc == InitConc /\ [][NextConc]_vars

\* ------------------- predictions beside concurrent mutations (SpecConcQuery)
\* a prediction request served by another thread while mutations are under
\* way: it reads the flags, the models and the store as they are at that moment
ConcPeriods == {1, HugePeriods}
ConcNow == {740000}

ConcPrices ==
  /\ \E p \in ConcPeriods, now \in ConcNow : QueryPrices(p, now)
  /\ Alone
ConcProfits ==
  /\ \E p \in ConcPeriods, now \in ConcNow : QueryProfits(p, now)
  /\ Alone
ConcPricesInvalid == QueryPricesInvalid /\ Alone
ConcProfitsInvalid == QueryProfitsInvalid /\ Alone

NextConcQuery ==
  \/ StartAdd \/ StartClear \/ Save \/ TrainLoad \/ PriceStage \/ ProfitStage
  \/ ConcPrices \/ ConcProfits \/ ConcPricesInvalid \/ ConcProfitsInvalid

SpecConcQuery == InitConc /\ [][NextConcQuery]_vars

\* --------------------------------- more rows than the window (SpecWindow)
\* adds of finite rows by two users, the second user's with the older
\* timestamp, up to MaxWindow rows; forecasts of one period
WindowCases == {<<1, InGood, 740001>>, <<2, InCheap, 740000>>, <<1, InCheap, 740000>>}

WindowAdd ==
  /\ Len(LoadData) < MaxWindow
  /\ \E c \in WindowCases : AddUserDataCall(c[1], c[2], c[3])
  /\ Alone
WindowPrices == QueryPrices(1, 740001) /\ Alone
WindowProfits == QueryProfits(1, 740001) /\ Alone

NextWindow == WindowAdd \/ WindowPrices \/ WindowProfits

SpecWindow == Init /\ [][NextWindow]_vars

\* ----------------------------------------------- failing reads (SpecRead)
\* the environment makes the store file fail to read: it is removed (lost), or
\* its rows are still on disk but open() or json.load raises on them
Damage(lost) ==
  /\ ~corrupt
  /\ corrupt' = TRUE
  /\ file' = IF lost THEN <<>> ELSE file
  /\ UNCHANGED <<price_model_trained, profit_model_trained, price_model, profit_model>>
  /\ ret' = Call("(file damaged)", NoUser, 0, NoArg, <<>>, "")

Damaged == \E lost \in BOOLEAN : Damage(lost) /\ Alone

NextRead == Add \/ Clear \/ Prices \/ Profits \/ History \/ Stats \/ Damaged

SpecRead == Init /\ [][NextRead]_vars

\* ------------------------- mutations over a file that does not parse (SpecOverwrite)
\* the file exists and keeps its rows on disk, but json.load raises on it
Invalidated == Damage(FALSE) /\ Alone

NextOverwrite == Add \/ Clear \/ Invalidated

SpecOverwrite == Init /\ [][NextOverwrite]_vars

\* ------------------------------------------- process restart (SpecRestart)
\* mutant: the new instance fits its models from the store it finds
Restart_Retrains ==
  /\ \E st \in TrainModels(FreshState, LoadData) : SetModelState(st)
  /\ UNCHANGED <<file, corrupt>>
  /\ ret' = Call("__init__", NoUser, 0, NoArg, <<>>, "")

\* the process ends and the module is imported again: market_predictor is a new
\* MarketPredictor() over the store file the old one left
Restart ==
  /\ SetModelState(FreshState)
  /\ UNCHANGED <<file, corrupt>>
  /\ ret' = Call("__init__", NoUser, 0, NoArg, <<>>, "")

Restarted == Restart /\ Alone

NextRestart == Add \/ Clear \/ Prices \/ Profits \/ History \/ Stats \/ Restarted

SpecRestart == Init /\ [][NextRestart]_vars

\* -------------------------------------------- the web handler (SpecWeb)
\* a submitted form field: the text of a number, of nan, of inf, or text that
\* float() rejects (a missing field reads as the number 0)
Txt(n) == <<"text", "num", n>>
TxtNaN == <<"text", "nan", 0>>
TxtInf == <<"text", "inf", 0>>
TxtBad == <<"text", "bad", 0>>

\* float(text): raises ValueError on text that is not a number
ParseRaises(t) == t[2] = "bad"
ParseFloat(t) == [k |-> t[2], v |-> t[3]]

FormFields == {"total_cost", "total_revenue", "net_profit", "market_price",
               "harvest_amount"}

FormGood == [total_cost |-> Txt(100), total_revenue |-> Txt(50),
             net_profit |-> Txt(0 - 50), market_price |-> Txt(500),
             harvest_amount |-> Txt(10)]
\* the forms submitted: acceptable ones, and ones with a field that is zero,
\* negative, nan or not a number
Forms == {FormGood,
          [FormGood EXCEPT !.net_profit = TxtNaN],
          [FormGood EXCEPT !.harvest_amount = TxtInf],
          [FormGood EXCEPT !.total_cost = Txt(0)],
          [FormGood EXCEPT !.total_revenue = Txt(0 - 50)],
          [FormGood EXCEPT !.market_price = TxtNaN],
          [FormGood EXCEPT !.harvest_amount = Txt(0)],
          [FormGood EXCEPT !.harvest_amount = TxtBad],
          [FormGood EXCEPT !.net_profit = TxtBad]}

\* x > 0 on floats: False for nan
Positive(x) == x.k = "inf" \/ (x.k = "num" /\ x.v > 0)

\* mutant: zero passes the validation
ValidData_AllowsZero(in) ==
  /\ in.total_cost.k = "inf" \/ (in.total_cost.k = "num" /\ in.total_cost.v >= 0)
  /\ Positive(in.total_revenue)
  /\ Positive(in.market_price)
  /\ Positive(in.harvest_amount)

\* all([total_cost > 0, total_revenue > 0, market_price > 0, harvest_amount > 0])
ValidData(in) ==
  /\ Positive(in.total_cost)
  /\ Positive(in.total_revenue)
  /\ Positive(in.market_price)
  /\ Positive(in.harvest_amount)

Reply(success, message) == [success |-> success, message |-> message]

\* handle_add_to_ml for the logged-in user u with the submitted form, at time ts
HandleAddToMl(u, form, ts) ==
  IF \E f \in FormFields : ParseRaises(form[f])
  THEN /\ ret' = Call("handle_add_to_ml", u, ts, form, Reply(FALSE, "ValueError"), "")
       /\ Unchanged
  ELSE LET in == [f \in FormFields |-> ParseFloat(form[f])] IN
    IF ~ValidData(in)
    THEN /\ ret' = Call("handle_add_to_ml", u, ts, form,
                        Reply(FALSE, "Invalid data provided"), "")
         /\ Unchanged
    ELSE /\ Len(LoadData) < MaxRecords
         /\ LET data == AddedData(u, in, ts) IN
              /\ SaveData(data)
              /\ \E st \in TrainModels(ModelState, data) : SetModelState(st)
              /\ ret' = Call("handle_add_to_ml", u, ts, form,
                             Reply(TRUE, "Data successfully added to analysis"), "")

\* a direct caller of add_user_data passes zero and negative values
InNonPositive == [market_price |-> Num(0), harvest_amount |-> Num(0 - 10),
                  total_cost |-> Num(0), total_revenue |-> Num(0 - 20),
                  net_profit |-> Num(0 - 20)]

WebAdd == \E form \in Forms : HandleAddToMl(1, form, 740001) /\ Alone
DirectAdd == AddUserData(1, InNonPositive, 740000) /\ Alone

NextWeb == WebAdd \/ DirectAdd \/ Clear

SpecWeb == Init /\ [][NextWeb]_vars

\* ================================================================= claims
Mutations == {"add_user_data", "clear_user_data"}
Predictions == {"predict_future_prices", "predict_future_profits"}
Queries == Predictions \cup {"get_historical_data", "get_model_stats"}

Returned(ops) == ret.op \in ops /\ ~ret.raised

NotTrainedResult == <<NoneResult, NotTrainedMsg>>

\* C1: whenever the store holds fewer than 3 records, both trained flags are
\* False and both prediction calls answer (None, not-trained) for every periods
C1_UntrainedBelowThree ==
  Len(LoadData) < 3 =>
    /\ ~price_model_trained
    /\ ~profit_model_trained
    /\ \A p \in Periods, now \in Timestamps :
         /\ PredictFuturePrices(p, now) = NotTrainedResult
         /\ PredictFutureProfits(p, now) = NotTrainedResult
    /\ Returned(Predictions) => ret.val.isNone /\ ret.err = NotTrainedMsg

C1_Witness ==
  /\ Returned({"predict_future_prices"})
  /\ ret.n = MaxPeriods
  /\ Len(LoadData) = 2
  /\ AllFinite(LoadData, "net_profit")
  /\ ret.err = NotTrainedMsg

\* after is before without the rows of user u: same rows, same order
RowsOfOthersKept(before, after, u) ==
  LET keep == {i \in 1 .. Len(before) : before[i].user_id # u}
      pos(i) == Cardinality({k \in keep : k <= i})
  IN /\ Len(after) = Cardinality(keep)
     /\ \A i \in keep : after[pos(i)] = before[i]

\* C2: clear_user_data(u) leaves no row of u in the store and every row of the
\* other users, unchanged and in the same order; get_historical_data(u) called
\* right after it returns the empty sequence
C2_ClearRemovesOnlyUser ==
  [][/\ \A u \in Users : (ret'.op = "clear_user_data" /\ ~ret'.raised /\ ret'.user = u) =>
          /\ \A i \in 1 .. Len(LoadData') : LoadData'[i].user_id # u
          /\ RowsOfOthersKept(LoadData, LoadData', u)
          /\ \A limit \in Limits : GetHistoricalData(u, limit)' = <<>>
     /\ (Returned({"clear_user_data"}) /\ ret'.op = "get_historical_data"
           /\ ret'.user = ret.user) => ret'.val = <<>>]_vars

C2_Witness ==
  /\ Returned({"clear_user_data"})
  /\ ret.was[3] = 3
  /\ Len(LoadData) = 2
  /\ LoadData[1].user_id # ret.user

\* C3: after add_user_data the last row of the store read back carries the six
\* values passed in and a generated timestamp, and the returned list is the store
C3_AddRoundTrip ==
  Returned({"add_user_data"}) =>
    /\ Len(LoadData) >= 1
    /\ LET last == LoadData[Len(LoadData)] IN
         /\ last.user_id = ret.user
         /\ last.market_price = ret.arg.market_price
         /\ last.harvest_amount = ret.arg.harvest_amount
         /\ last.total_cost = ret.arg.total_cost
         /\ last.total_revenue = ret.arg.total_revenue
         /\ last.net_profit = ret.arg.net_profit
         /\ last.timestamp \in Timestamps
    /\ ret.val = LoadData

C3_Witness ==
  /\ Returned({"add_user_data"})
  /\ ret.arg = InNanProfit
  /\ Len(LoadData) = 3

\* how many times row r occurs in data
Occurrences(data, r) == Cardinality({i \in 1 .. Len(data) : data[i] = r})

\* C4: a step of add_user_data leaves the old store as a prefix and one more row
\* after it; any other step that changes the store is a clear_user_data, and a
\* row that then occurs less often belongs to the user cleared
C4_AppendOnly ==
  [][/\ (ret'.op = "add_user_data" /\ ~ret'.raised) =>
          /\ Len(LoadData') = Len(LoadData) + 1
          /\ SubSeq(LoadData', 1, Len(LoadData)) = LoadData
     /\ (LoadData' # LoadData /\ ret'.op # "add_user_data") =>
          /\ ret'.op = "clear_user_data"
          /\ RowsOfOthersKept(LoadData, LoadData', ret'.user)
     /\ \/ UNCHANGED <<file, corrupt>>
        \/ \A i \in 1 .. Len(LoadData) :
             Occurrences(LoadData', LoadData[i]) < Occurrences(LoadData, LoadData[i])
               => ret'.op = "clear_user_data" /\ LoadData[i].user_id = ret'.user]_vars

C4_Witness ==
  /\ Returned({"add_user_data"})
  /\ ret.was[3] = 2
  /\ Len(LoadData) = 3
  /\ LoadData[1] # LoadData[3]

\* the retrain on store data fits both models without an exception
FitSucceeds(data) == ~PriceStageRaises(data) /\ ~ProfitStageRaises(data)

\* C5: a flag turns True only in a mutation whose retrain sees >= 3 records and
\* fits, turns False only in a mutation whose retrain sees < 3 records or
\* raises, and every mutation leaves both flags True exactly when its retrain
\* saw >= 3 records and fitted
C5_TrainedStateMachine ==
  [][LET mut == ret'.op \in Mutations /\ ~ret'.raised
         fits == Len(LoadData') >= 3 /\ FitSucceeds(LoadData')
     IN /\ (~price_model_trained /\ price_model_trained') => mut /\ fits
        /\ (~profit_model_trained /\ profit_model_trained') => mut /\ fits
        /\ (price_model_trained /\ ~price_model_trained') => mut /\ ~fits
        /\ (profit_model_trained /\ ~profit_model_trained') => mut /\ ~fits
        /\ mut => /\ price_model_trained' = fits
                  /\ profit_model_trained' = fits]_vars

C5_Witness ==
  /\ Returned({"clear_user_data"})
  /\ ret.was = <<TRUE, TRUE, 3>>
  /\ Len(LoadData) < 3
  /\ ~price_model_trained
  /\ ~profit_model_trained

\* the list a mutation hands to save_data, which _train_models then loads
SavedBy(call) ==
  IF call.op = "add_user_data"
  THEN Append(LoadData, NewRow(call.user, call.arg, call.n))
  ELSE SelectSeqBy(LoadData, call.user, FALSE)

\* C6: when a stage of _train_models raises, both flags are False when it
\* returns and the store is the one it started from
C6_FitFailureLeavesUntrained ==
  [][(/\ ret'.op \in Mutations
      /\ ~ret'.raised
      /\ Len(SavedBy(ret')) >= 3
      /\ ~FitSucceeds(SavedBy(ret')))
       => /\ ~price_model_trained'
          /\ ~profit_model_trained'
          /\ LoadData' = SavedBy(ret')]_vars

C6_Witness ==
  /\ Returned({"add_user_data"})
  /\ Len(LoadData) = 3
  /\ ~PriceStageRaises(LoadData)
  /\ ProfitStageRaises(LoadData)
  /\ ~price_model_trained
  /\ ~profit_model_trained

\* C7: no public operation raises to its caller
C7_NeverRaises == ~ret.raised

\* the store a concurrent add loaded, and the row it appended to it
Snapshot(p) == SubSeq(ldata[p], 1, Len(ldata[p]) - 1)
BothAddsDone == \A p \in Users : pc[p] = "done" /\ req[p].kind = "add"

\* C8: when two concurrent adds both loaded the store before either saved, both
\* complete and the store holds the snapshot and the row of one of them only
C8_LastWriterWins ==
  (BothAddsDone /\ Snapshot(1) = Snapshot(2)) =>
    /\ Len(LoadData) = Len(Snapshot(1)) + 1
    /\ LoadData \in {ldata[1], ldata[2]}

C8_Witness ==
  /\ BothAddsDone
  /\ Snapshot(1) = Snapshot(2)
  /\ ldata[1] # ldata[2]
  /\ LoadData = ldata[1]
  /\ \A i \in 1 .. Len(LoadData) : LoadData[i] # ldata[2][Len(ldata[2])]

\* C9: a query changes neither the store nor the flags nor the models, and
\* get_model_stats or get_historical_data asked twice in a row with the same
\* arguments answers the same
C9_QueriesReadOnly ==
  [][/\ ret'.op \in Queries =>
          UNCHANGED <<file, corrupt, price_model_trained, profit_model_trained,
                      price_model, profit_model>>
     /\ (/\ ret.op \in {"get_model_stats", "get_historical_data"}
         /\ ret'.op = ret.op
         /\ ret'.user = ret.user
         /\ ret'.n = ret.n) => ret'.val = ret.val]_vars

C9_Witness ==
  /\ Returned({"get_model_stats"})
  /\ price_model_trained
  /\ ret.val.total_data_points = 3
  /\ ret.val.model_trained

\* the forecast of a call: n entries dated 30, 60, ... days after one instant,
\* all with the same value
FlatForecast(items, n) ==
  /\ Len(items) = n
  /\ \E now \in Timestamps : \A i \in 1 .. n : items[i].date = now + 30 * i
  /\ \A i \in 1 .. n : \A j \in 1 .. n : i < j => items[i].date < items[j].date
  /\ \A i \in 1 .. n : items[i].value = items[1].value

TrainedFor(op) ==
  IF op = "predict_future_prices" THEN price_model_trained ELSE profit_model_trained

\* C10 as stated: in a trained state with a non-empty store, a prediction call
\* returns (list, None) with a flat forecast of n entries, for every n >= 0
C10_ForecastEveryN ==
  (Returned(Predictions) /\ TrainedFor(ret.op) /\ Len(LoadData) > 0) =>
    /\ ~ret.val.isNone
    /\ ret.err = ""
    /\ FlatForecast(ret.val.items, ret.n)

\* every date of a forecast of n periods is a date datetime can hold
DatesInRange(n) == \A now \in Timestamps : now + 30 * n <= MaxOrdinal

\* C10 amended: the same, for every n >= 0 whose last date datetime can hold; for
\* a larger n the call returns (None, error message)
C10_ForecastInRange ==
  (Returned(Predictions) /\ TrainedFor(ret.op) /\ Len(LoadData) > 0) =>
    IF DatesInRange(ret.n)
    THEN /\ ~ret.val.isNone
         /\ ret.err = ""
         /\ FlatForecast(ret.val.items, ret.n)
    ELSE ret.val.isNone /\ ret.err \in {PriceErrMsg, ProfitErrMsg}

C10_Witness ==
  /\ Returned({"predict_future_prices"})
  /\ price_model_trained
  /\ ret.n = MaxPeriods
  /\ ~ret.val.isNone
  /\ Len(ret.val.items) = MaxPeriods
  /\ ret.val.items[1].date < ret.val.items[MaxPeriods].date

\* the raw prediction of a model over the rows the call averages, as the
\* numerator over the denominator len(recent)
RawOf(op) ==
  IF op = "predict_future_prices"
  THEN RawNumerator(price_model, RecentData(LoadData), PriceFeatures)
  ELSE RawNumerator(profit_model, RecentData(LoadData), ProfitFeatures)

\* C11: every predicted_price returned is >= 0, and is 0 when the fitted model
\* yields a negative value; predict_future_profits has no floor and returns a
\* negative raw prediction as it is (rounded)
C11_PriceFloorOnly ==
  (Returned(Predictions) /\ ~ret.val.isNone) =>
    \A i \in 1 .. Len(ret.val.items) :
      LET n == Len(RecentData(LoadData))
          v == ret.val.items[i].value
      IN IF ret.op = "predict_future_prices"
         THEN /\ v >= 0
              /\ RawOf(ret.op) < 0 => v = 0
              /\ RawOf(ret.op) >= 0 => v = RoundDiv(RawOf(ret.op), n)
         ELSE /\ v = RoundDiv(RawOf(ret.op), n)
              /\ RawOf(ret.op) < 0 => v < 0

C11_Witness ==
  /\ Returned({"predict_future_prices"})
  /\ ~ret.val.isNone
  /\ ret.n = MaxPeriods
  /\ RawOf("predict_future_prices") < 0
  /\ ret.val.items[MaxPeriods].value = 0
  /\ profit_model_trained
  /\ RawOf("predict_future_profits") < 0
  /\ PredictFutureProfits(1, 740000)[1].items[1].value < 0

\* positions of the rows of data that a query for user u (or NoUser) matches
Matching(data, u) == {i \in 1 .. Len(data) : u = NoUser \/ data[i].user_id = u}

\* entries is the first k rows of the matching rows of data in descending
\* timestamp order, entry i labelled month i
TopByTimestamp(entries, data, match, k) ==
  /\ Len(entries) = k
  /\ \E f \in [1 .. k -> match] :
       /\ \A i \in 1 .. k : \A j \in 1 .. k : i # j => f[i] # f[j]
       /\ \A i \in 1 .. k :
            /\ entries[i].month = i
            /\ entries[i].market_price = data[f[i]].market_price
            /\ entries[i].net_profit = data[f[i]].net_profit
       /\ \A i \in 1 .. k : \A j \in 1 .. k :
            i < j => data[f[i]].timestamp >= data[f[j]].timestamp
       /\ \A i \in 1 .. k : \A j \in match \ {f[h] : h \in 1 .. k} :
            data[f[i]].timestamp >= data[j].timestamp

\* C12: get_historical_data(user_id, limit) with limit >= 0 returns exactly
\* min(limit, m) entries, m the number of matching rows (all rows when user_id
\* is None); entry i is labelled Month i and carries the market_price and
\* net_profit of the i-th matching row in descending timestamp order
C12_HistoryNewestFirst ==
  Returned({"get_historical_data"}) =>
    LET match == Matching(LoadData, ret.user)
    IN TopByTimestamp(ret.val, LoadData, match, Min2(ret.n, Cardinality(match)))

C12_Witness ==
  /\ Returned({"get_historical_data"})
  /\ ret.user = 1
  /\ ret.n = MaxLimit
  /\ Cardinality(Matching(LoadData, 1)) > MaxLimit
  /\ LoadData[1].user_id = 1
  /\ \E i \in Matching(LoadData, 1) : LoadData[i].timestamp > LoadData[1].timestamp
  /\ Len(ret.val) = MaxLimit
  /\ ret.val[1].market_price # LoadData[1].market_price

\* the distinct user_id values among the rows at the positions of match
DistinctUsers(data, match) == {data[i].user_id : i \in match}

\* C13 as stated: get_model_stats(user_id) reports the number of rows of the
\* filtered set as total_data_points and the number of distinct user_id values
\* of the filtered set as total_users, for every store and every user_id; for an
\* empty filtered set total_data_points = 0 and model_trained = False
C13_StatsCountFiltered ==
  Returned({"get_model_stats"}) =>
    LET match == Matching(LoadData, ret.user) IN
      /\ ret.val.total_data_points = Cardinality(match)
      /\ ret.val.total_users = Cardinality(DistinctUsers(LoadData, match))
      /\ match = {} => /\ ret.val.message = "No data available"
                       /\ ~ret.val.model_trained

\* C13 amended: the same for a non-empty filtered set; for an empty one the
\* "no data" shape has total_data_points = 0, model_trained = False and
\* total_users = 1 when a user_id was given, 0 when it was None
C13_StatsCountNonEmpty ==
  Returned({"get_model_stats"}) =>
    LET match == Matching(LoadData, ret.user) IN
      /\ ret.val.total_data_points = Cardinality(match)
      /\ match # {} =>
           ret.val.total_users = Cardinality(DistinctUsers(LoadData, match))
      /\ match = {} =>
           /\ ret.val.message = "No data available"
           /\ ~ret.val.model_trained
           /\ ret.val.total_users = IF ret.user = NoUser THEN 0 ELSE 1

C13_Witness ==
  /\ Returned({"get_model_stats"})
  /\ ret.user = NoUser
  /\ Len(LoadData) = 3
  /\ ret.val.total_data_points = 3
  /\ ret.val.total_users = 2

\* what a call answers on an empty store, for the flags of the current state
EmptyStoreAnswer(call) ==
  IF call.op \in Predictions
    THEN /\ call.val.isNone
         /\ call.err = IF TrainedFor(call.op) THEN NoDataMsg ELSE NotTrainedMsg
  ELSE IF call.op = "get_historical_data" THEN call.val = <<>>
  ELSE /\ call.val.total_data_points = 0
       /\ call.val.message = "No data available"
       /\ ~call.val.model_trained

\* C14: when the store file fails to read (removed, unreadable, not JSON),
\* load_data returns the empty sequence and nothing raises; every operation
\* that reads the store then does what it does on an empty store: a query
\* answers as on an empty store, add_user_data leaves a store of the new row
\* alone, clear_user_data leaves an empty store, both with the models untrained
C14_ReadFailureIsEmptyStore ==
  /\ [](corrupt => LoadData = <<>>)
  /\ [](~ret.raised)
  /\ []((corrupt /\ Returned(Queries)) => EmptyStoreAnswer(ret))
  /\ [][(corrupt /\ ret'.op \in Mutations) =>
          /\ ret'.was[3] = 0
          /\ ~price_model_trained' /\ ~profit_model_trained'
          /\ IF ret'.op = "clear_user_data" THEN LoadData' = <<>>
             ELSE /\ Len(LoadData') = 1
                  /\ LoadData'[1].user_id = ret'.user
                  /\ LoadData'[1].market_price = ret'.arg.market_price]_vars

C14_Witness ==
  /\ corrupt
  /\ Len(file) = 3
  /\ Returned({"get_historical_data"})
  /\ ret.user = NoUser
  /\ ret.n = MaxLimit
  /\ ret.val = <<>>
  /\ price_model_trained
  /\ PredictFuturePrices(1, 740000) = <<NoneResult, NoDataMsg>>

\* C15: a new MarketPredictor over an existing store starts with both models
\* untrained whatever the store holds, so both predictions answer (None,
\* not-trained) even with 3 or more rows; a flag turns True again only in an
\* add_user_data or clear_user_data, whose retrain reads the full store, and
\* never in a query
C15_RestartUntrained ==
  /\ []((ret.op = "__init__") =>
          /\ ~price_model_trained /\ ~profit_model_trained
          /\ \A p \in Periods, now \in Timestamps :
               /\ PredictFuturePrices(p, now) = NotTrainedResult
               /\ PredictFutureProfits(p, now) = NotTrainedResult)
  /\ []((Returned(Predictions) /\ ~TrainedFor(ret.op)) =>
          ret.val.isNone /\ ret.err = NotTrainedMsg)
  /\ [][/\ ret'.op = "__init__" => LoadData' = LoadData
        /\ ret'.op \in Queries =>
             /\ price_model_trained' = price_model_trained
             /\ profit_model_trained' = profit_model_trained
        /\ ((~price_model_trained /\ price_model_trained')
             \/ (~profit_model_trained /\ profit_model_trained')) =>
             /\ ret'.op \in Mutations
             /\ Len(LoadData') >= 3 /\ FitSucceeds(LoadData')
        /\ (ret'.op \in Mutations /\ Len(LoadData') >= 3 /\ FitSucceeds(LoadData')) =>
             price_model_trained' /\ profit_model_trained']_vars

C15_Witness ==
  /\ Returned({"predict_future_profits"})
  /\ ret.n = 1
  /\ Len(LoadData) = 3
  /\ FitSucceeds(LoadData)
  /\ ~price_model_trained
  /\ ~profit_model_trained
  /\ ret.val.isNone
  /\ ret.err = NotTrainedMsg

\* an exception is raised inside the try block of the prediction call: the
\* periods value is not an integer, a feature mean is not finite (the scaler
\* rejects it), or a forecast date is out of the range of datetime
RaisesInside(call) ==
  \/ call.arg = InvalidPeriods
  \/ /\ call.arg # InvalidPeriods
     /\ call.n >= 1
     /\ \/ PredictRaises(IF call.op = "predict_future_prices"
                         THEN price_model ELSE profit_model,
                         RecentData(LoadData),
                         IF call.op = "predict_future_prices"
                         THEN PriceFeatures ELSE ProfitFeatures)
        \/ \A now \in Timestamps : DateRaises(now, call.n)

\* C16: a prediction call on a trained model and a non-empty store in which an
\* exception is raised returns (None, error message) and does not raise; the
\* store, both flags and both models are as before the call
C16_PredictionCatches ==
  [][(/\ ret'.op \in Predictions
      /\ pc' = pc
      /\ TrainedFor(ret'.op)
      /\ Len(LoadData) > 0
      /\ RaisesInside(ret')) =>
        /\ ~ret'.raised
        /\ ret'.val.isNone
        /\ ret'.err = IF ret'.op = "predict_future_prices"
                      THEN PriceErrMsg ELSE ProfitErrMsg
        /\ Unchanged]_vars

C16_Witness ==
  /\ Returned({"predict_future_prices"})
  /\ ret.arg = NoArg
  /\ ret.n = 1
  /\ price_model_trained
  /\ Len(LoadData) >= 3
  /\ ~AllFinite(RecentData(LoadData), "harvest_amount")
  /\ ret.val.isNone
  /\ ret.err = PriceErrMsg

\* the last min(5, n) positions of a list of n rows
LastFive(data) == {i \in 1 .. Len(data) : i > Len(data) - 5}

RECURSIVE FeatureTotal(_, _, _)
\* sum of the features feats over the rows of data at the positions pos
FeatureTotal(data, pos, feats) ==
  IF pos = {} THEN 0
  ELSE LET i == CHOOSE j \in pos : TRUE
       IN data[i][feats[1]].v + data[i][feats[2]].v
          + (IF Len(feats) = 3 THEN data[i][feats[3]].v ELSE 0)
          + FeatureTotal(data, pos \ {i}, feats)

\* the forecast value of model m for the mean of feats over the positions pos
MeanForecast(m, data, pos, feats, floor) ==
  LET k == Cardinality(pos)
      raw == m.b * k + m.w * FeatureTotal(data, pos, feats)
  IN RoundDiv(IF floor /\ raw < 0 THEN 0 ELSE raw, k)

\* C17: both forecasts are computed from the mean over the last min(5, n) rows
\* of the whole store in stored order, whoever the rows belong to and whatever
\* their timestamps: a row inserted later with an older timestamp counts, a row
\* inserted earlier with a newer timestamp does not once five follow it
C17_LastFiveStored ==
  (Returned(Predictions) /\ ~ret.val.isNone /\ ret.n = 1) =>
    ret.val.items[1].value =
      IF ret.op = "predict_future_prices"
      THEN MeanForecast(price_model, LoadData, LastFive(LoadData), PriceFeatures, TRUE)
      ELSE MeanForecast(profit_model, LoadData, LastFive(LoadData), ProfitFeatures, FALSE)

C17_Witness ==
  /\ Returned({"predict_future_profits"})
  /\ ~ret.val.isNone
  /\ Len(LoadData) = 6
  /\ LoadData[1].timestamp > LoadData[6].timestamp
  /\ LoadData[1].user_id = 1
  /\ \A i \in 2 .. 6 : LoadData[i].user_id = 2
  /\ ret.val.items[1].value
       # MeanForecast(profit_model, LoadData, 1 .. 6, ProfitFeatures, FALSE)
  /\ ret.val.items[1].value
       # MeanForecast(profit_model, LoadData, 1 .. 5, ProfitFeatures, FALSE)

\* scaler and regression fit of both stages go through on the store data
RegressionFits(data) ==
  /\ ~ScalerRaises(data, <<"harvest_amount", "total_cost">>)
  /\ ~FitRaises(data, "market_price")
  /\ ~ScalerRaises(data, <<"market_price", "harvest_amount", "total_cost">>)
  /\ ~FitRaises(data, "net_profit")

\* the stages of the model raise exactly when the scaler, the fit or the
\* evaluation does
StagesAgree(data) ==
  /\ PriceStageRaises(data) <=>
       \/ ScalerRaises(data, <<"harvest_amount", "total_cost">>)
       \/ FitRaises(data, "market_price")
       \/ EvaluationRaises(data, "market_price")
  /\ (~PriceStageRaises(data)) =>
       (ProfitStageRaises(data) <=>
          \/ FitRaises(data, "net_profit")
          \/ EvaluationRaises(data, "net_profit"))

\* on every store of 3 to 5 rows the two descriptions of a raising stage agree
StagesConsistent ==
  (Len(LoadData) >= 3 /\ Len(LoadData) <= 5) => StagesAgree(LoadData)

\* C18 as stated: after a retrain on a store of 3 or more rows on which the
\* regression fits themselves succeed, the models are marked trained, whatever
\* the evaluation on the test partition does
C18_DiagnosticsNeverGate ==
  (Returned(Mutations) /\ Len(LoadData) >= 3 /\ Len(LoadData) <= 5
     /\ RegressionFits(LoadData)) =>
    price_model_trained /\ profit_model_trained

\* the state that refutes it: the fits succeeded, the evaluation of the profit
\* model raised, and the handler left both models untrained
C18_EvaluationGates ==
  /\ Returned({"add_user_data"})
  /\ Len(LoadData) = 3
  /\ RegressionFits(LoadData)
  /\ EvaluationRaises(LoadData, "net_profit")
  /\ ~price_model_trained
  /\ ~profit_model_trained

\* the submitted text t is a number greater than 0
TextPositive(t) == t[2] = "inf" \/ (t[2] = "num" /\ t[3] > 0)

\* every field of the form is a number, and the four validated ones are > 0
Acceptable(form) ==
  /\ \A f \in FormFields : form[f][2] # "bad"
  /\ TextPositive(form.total_cost)
  /\ TextPositive(form.total_revenue)
  /\ TextPositive(form.market_price)
  /\ TextPositive(form.harvest_amount)

\* C19: add_user_data appends the values it is given, zero and negative ones
\* too; handle_add_to_ml calls it, and answers success, only for a form whose
\* fields all parse and whose total_cost, total_revenue, market_price and
\* harvest_amount are > 0, whatever net_profit is; for every other form it
\* answers success = False and leaves the store, the flags and the models alone
C19_HandlerValidates ==
  [][/\ ret'.op = "add_user_data" =>
          /\ Len(LoadData') = Len(LoadData) + 1
          /\ \A f \in FormFields : LoadData'[Len(LoadData')][f] = ret'.arg[f]
     /\ ret'.op = "handle_add_to_ml" =>
          IF Acceptable(ret'.arg)
          THEN /\ ret'.val.success
               /\ Len(LoadData') = Len(LoadData) + 1
               /\ SubSeq(LoadData', 1, Len(LoadData)) = LoadData
               /\ LoadData'[Len(LoadData')].user_id = ret'.user
               /\ \A f \in FormFields :
                    /\ LoadData'[Len(LoadData')][f].k = ret'.arg[f][2]
                    /\ LoadData'[Len(LoadData')][f].v = ret'.arg[f][3]
          ELSE /\ ~ret'.val.success
               /\ Unchanged]_vars

C19_Witness ==
  /\ Returned({"handle_add_to_ml"})
  /\ ret.arg.total_cost = Txt(0)
  /\ ~ret.val.success
  /\ Len(LoadData) = 3
  /\ price_model_trained
  /\ profit_model_trained
  /\ \E i \in 1 .. 3 : LoadData[i].harvest_amount.v < 0 /\ LoadData[i].market_price.v = 0
  /\ \E i \in 1 .. 3 : LoadData[i].net_profit = NaN \/ LoadData[i].net_profit.v < 0

\* both concurrent mutations have returned
BothDone == \A p \in Users : pc[p] = "done"

\* C20: two concurrent mutations can both complete with fewer than 3 rows in
\* the store and a model flag set. Whenever they do, the retrain of one of them
\* had loaded a store of 3 or more rows that is no longer the persisted one, and
\* predict_future_prices does not answer not-trained in that state
C20_StaleTrainedFlag ==
  (BothDone /\ Len(LoadData) < 3 /\ price_model_trained) =>
    /\ \E p \in Users : Len(tdata[p]) >= 3 /\ tdata[p] # LoadData
    /\ \A n \in Periods, now \in Timestamps :
         PredictFuturePrices(n, now) # NotTrainedResult
    /\ (Returned({"predict_future_prices"}) /\ ret.was[1]) => ret.err # NotTrainedMsg

C20_Witness ==
  /\ BothDone
  /\ req[1].kind = "clear"
  /\ req[2].kind = "add"
  /\ Len(LoadData) = 2
  /\ price_model_trained
  /\ profit_model_trained
  /\ Returned({"predict_future_prices"})
  /\ ret.was = <<TRUE, TRUE, 2>>
  /\ ret.n = 1
  /\ ~ret.val.isNone
  /\ Len(ret.val.items) = 1

\* the rows on disk in a file that exists, whether or not it loads
RowsOnDisk == JsonLoad(file)

\* C21: a mutation that finds an existing file it cannot read goes on from the
\* empty sequence and overwrites the file without reporting an error: after
\* add_user_data the store holds the new row only, after clear_user_data it is
\* empty, and every row that was on disk, of every user, is gone
C21_UnreadableFileOverwritten ==
  /\ []((corrupt /\ (price_model_trained \/ profit_model_trained)) =>
          Len(RowsOnDisk) >= 3)
  /\ [][(corrupt /\ Len(RowsOnDisk) > 0 /\ ret'.op \in Mutations) =>
          /\ ~ret'.raised
          /\ ret'.err = ""
          /\ ~corrupt'
          /\ RowsOnDisk' = LoadData'
          /\ IF ret'.op = "clear_user_data" THEN RowsOnDisk' = <<>>
             ELSE /\ Len(RowsOnDisk') = 1
                  /\ RowsOnDisk'[1].user_id = ret'.user
                  /\ RowsOnDisk'[1].timestamp = ret'.n
                  /\ \A f \in {"market_price", "harvest_amount", "total_cost",
                               "total_revenue", "net_profit"} :
                       RowsOnDisk'[1][f] = ret'.arg[f]]_vars

C21_Witness ==
  /\ Returned({"add_user_data"})
  /\ ret.was = <<TRUE, TRUE, 0>>
  /\ ret.user = 1
  /\ ~corrupt
  /\ Len(RowsOnDisk) = 1
  /\ RowsOnDisk[1].user_id = 1
  /\ ~price_model_trained
  /\ ~profit_model_trained

\* the rows of user u in the store, in stored order
OwnRows(u) == SelectSeqBy(LoadData, u, TRUE)

\* the fields of get_model_stats(u) that the claim names, on a loaded store
OwnStats(store, u) ==
  LET st == ModelStats(store, u) IN
    <<st.total_data_points, st.avg_market_price, st.avg_profit, st.total_users,
      st.date_range>>

\* C22: for users u # v, an add_user_data(v, ...) or clear_user_data(v) leaves
\* get_historical_data(u, limit) and the fields total_data_points,
\* avg_market_price, avg_profit, total_users and date_range of
\* get_model_stats(u) as they were: these answers are the ones computed from
\* the rows of u alone, and a mutation by v leaves the rows of u as they were.
\* model_trained of get_model_stats(u) follows the two flags, which the retrain
\* sets from the rows of all users
C22_QueriesIsolated ==
  /\ [](\A u \in Users :
          /\ \A limit \in Limits :
               GetHistoricalData(u, limit) = HistoricalData(OwnRows(u), u, limit)
          /\ OwnStats(LoadData, u) = OwnStats(OwnRows(u), u)
          /\ GetModelStats(u).model_trained =
               (OwnRows(u) # <<>> /\ price_model_trained /\ profit_model_trained))
  /\ [][\A u \in Users : \A v \in Users \ {u} :
          (ret'.op \in Mutations /\ ~ret'.raised /\ ret'.user = v) =>
            OwnRows(u)' = OwnRows(u)]_vars

C22_Witness ==
  /\ Returned({"add_user_data"})
  /\ ret.user = 2
  /\ ret.was = <<FALSE, FALSE, 2>>
  /\ Cardinality(Matching(LoadData, 1)) = 2
  /\ Len(GetHistoricalData(1, MaxLimit)) = 2
  /\ OwnStats(LoadData, 1)[1] = 2
  /\ GetModelStats(1).model_trained
  /\ GetModelStats(1).training_status = "Trained"
  /\ ~PredictFuturePrices(1, 740000)[1].isNone
  /\ ~PredictFutureProfits(1, 740000)[1].isNone

====
